---------------------------- MODULE Spec2Model ----------------------------
(***************************************************************************)
(* The task service of src/app.py: a Flask application with five routes    *)
(* over one PostgreSQL table, `tasks`.                                      *)
(*                                                                         *)
(* Each request is served by one worker with a connection of its own.  A   *)
(* handler is modelled statement by statement: dispatch + validation +     *)
(* connect, first statement, second statement (update and delete), commit. *)
(* The return and the `finally: conn.close()` that follow the last         *)
(* statement touch nothing shared and are part of the step that ends the   *)
(* handler.  The database is PostgreSQL at its default isolation level,    *)
(* READ COMMITTED: a statement sees what is committed when it starts, a    *)
(* transaction's writes become visible at its commit, a row written by an  *)
(* open transaction is locked against other writers until that transaction *)
(* ends, a closed connection rolls its open transaction back, and the      *)
(* SERIAL sequence is advanced outside any transaction.                    *)
(*                                                                         *)
(* Strings are sequences of one-character strings, so that validate_date   *)
(* can be modelled by what datetime.strptime does with the characters.     *)
(***************************************************************************)
EXTENDS Integers, Sequences, FiniteSets, TLC

\* ------------------------------------------------------------------ bounds

\* The id sequence is advanced at most this many times.
MaxSeq == 2

\* The same, while requests are served concurrently.
ConcMaxSeq == 1

\* init_db is run at most this many times.
MaxInitRuns == 2

\* Concurrent workers (gunicorn workers / Flask threads).
Workers == {"w1", "w2"}

\* init_db runs in a process of its own.
Procs == Workers \cup {"init"}

\* ------------------------------------------------------------ JSON values

\* Python None: an absent key (data.get) or a JSON null.
NULL == [t |-> "null", s |-> <<>>]

Str(cs) == [t |-> "str", s |-> cs]

\* Python truthiness of None and of a str: `if x` / `not x`.
Truthy(v) == v.t = "str" /\ Len(v.s) > 0

EMPTY == Str(<<>>)

PENDENTE == Str(<<"p","e","n","d","e","n","t","e">>)

REALIZANDO == Str(<<"r","e","a","l","i","z","a","n","d","o">>)

CONCLUIDA == Str(<<"c","o","n","c","l","u","í","d","a">>)

\* ------------------------------------------------------------- validators

Digits == <<"0","1","2","3","4","5","6","7","8","9">>

IsDigit(c) == \E i \in 1..10 : Digits[i] = c

DigitVal(c) == (CHOOSE i \in 1..10 : Digits[i] = c) - 1

IsDigitIn(c, lo, hi) == IsDigit(c) /\ DigitVal(c) >= lo /\ DigitVal(c) <= hi

\* int() of a run of digits (a leading space, which %d admits, counts nothing).
RECURSIVE IntOf(_)
IntOf(cs) ==
    IF cs = <<>> THEN 0
    ELSE IF cs[Len(cs)] = " " THEN 0
    ELSE 10 * IntOf(SubSeq(cs, 1, Len(cs) - 1)) + DigitVal(cs[Len(cs)])

\* _strptime's regex for %Y: (?P<Y>\d\d\d\d)
MatchY(cs) == Len(cs) = 4 /\ \A i \in 1..4 : IsDigit(cs[i])

\* _strptime's regex for %m: (?P<m>1[0-2]|0[1-9]|[1-9])
MatchM(cs) ==
    \/ Len(cs) = 2 /\ cs[1] = "1" /\ IsDigitIn(cs[2], 0, 2)
    \/ Len(cs) = 2 /\ cs[1] = "0" /\ IsDigitIn(cs[2], 1, 9)
    \/ Len(cs) = 1 /\ IsDigitIn(cs[1], 1, 9)

\* _strptime's regex for %d: (?P<d>3[0-1]|[1-2]\d|0[1-9]|[1-9]| [1-9])
MatchD(cs) ==
    \/ Len(cs) = 2 /\ cs[1] = "3" /\ IsDigitIn(cs[2], 0, 1)
    \/ Len(cs) = 2 /\ IsDigitIn(cs[1], 1, 2) /\ IsDigit(cs[2])
    \/ Len(cs) = 2 /\ cs[1] = "0" /\ IsDigitIn(cs[2], 1, 9)
    \/ Len(cs) = 1 /\ IsDigitIn(cs[1], 1, 9)
    \/ Len(cs) = 2 /\ cs[1] = " " /\ IsDigitIn(cs[2], 1, 9)

IsLeap(y) == (y % 4 = 0 /\ y % 100 # 0) \/ y % 400 = 0

DaysInMonth(y, m) ==
    IF m = 2 THEN (IF IsLeap(y) THEN 29 ELSE 28)
    ELSE IF m \in {4, 6, 9, 11} THEN 30 ELSE 31

\* The date constructor strptime ends with: ValueError unless the date exists
\* (datetime.MINYEAR is 1).
DateExists(y, m, d) ==
    y >= 1 /\ m >= 1 /\ m <= 12 /\ d >= 1 /\ d <= DaysInMonth(y, m)

\* datetime.strptime(cs, '%Y-%m-%d') returns (rather than raising ValueError):
\* the whole string matches year "-" month "-" day, the month and the day of
\* one or two characters, and the date exists.
StrptimeOk(cs) ==
    \E lm \in 1..2 : \E ld \in 1..2 :
        /\ Len(cs) = 6 + lm + ld
        /\ MatchY(SubSeq(cs, 1, 4))
        /\ cs[5] = "-"
        /\ MatchM(SubSeq(cs, 6, 5 + lm))
        /\ cs[6 + lm] = "-"
        /\ MatchD(SubSeq(cs, 7 + lm, 6 + lm + ld))
        /\ DateExists(IntOf(SubSeq(cs, 1, 4)),
                      IntOf(SubSeq(cs, 6, 5 + lm)),
                      IntOf(SubSeq(cs, 7 + lm, 6 + lm + ld)))

validate_date(date_str) ==
    IF ~Truthy(date_str) THEN TRUE ELSE StrptimeOk(date_str.s)

StatusList == <<PENDENTE, REALIZANDO, CONCLUIDA>>

validate_status(status) == \E i \in 1..Len(StatusList) : StatusList[i] = status


\* ----------------------------------------------------------------- inputs

\* The JSON body of a POST or PUT, as data.get reads it: a key that is absent
\* or null reads as None.
NoData == [titulo |-> NULL, descricao |-> NULL, status |-> NULL,
           data_vencimento |-> NULL]

BaseData == [NoData EXCEPT !.titulo = Str(<<"a">>), !.status = PENDENTE]

D_LEAP == Str(<<"2","0","2","4","-","0","2","-","2","9">>)

D_SHORT == Str(<<"2","0","2","4","-","1","-","5">>)

D_NOLEAP == Str(<<"2","0","2","3","-","0","2","-","2","9">>)

D_SLASH == Str(<<"2","0","2","4","/","1","3","/","4","0">>)

\* Bodies the handlers accept.
GoodBodies ==
    { BaseData,
      [BaseData EXCEPT !.descricao = Str(<<"d">>), !.status = CONCLUIDA,
                       !.data_vencimento = D_LEAP],
      [BaseData EXCEPT !.titulo = Str(<<"b">>), !.status = REALIZANDO,
                       !.data_vencimento = EMPTY] }

\* Bodies with one field changed: missing, empty, unknown, malformed.
OddBodies ==
    { [BaseData EXCEPT !.titulo = NULL],
      [BaseData EXCEPT !.titulo = EMPTY],
      [BaseData EXCEPT !.status = NULL],
      [BaseData EXCEPT !.status = EMPTY],
      [BaseData EXCEPT !.status = Str(<<"P","e","n","d","e","n","t","e">>)],
      [BaseData EXCEPT !.data_vencimento = D_NOLEAP],
      [BaseData EXCEPT !.data_vencimento = D_SLASH],
      [BaseData EXCEPT !.data_vencimento = D_SHORT] }

Bodies == GoodBodies \cup OddBodies

\* request.args.get('status') of GET /tarefas.
Filters == {NULL, EMPTY, PENDENTE, CONCLUIDA, Str(<<"d","o","n","e">>)}

Methods == {"GET", "POST", "PUT", "DELETE"}

\* A URL path: "/" + seg, then "/" + id when hasId.
Path(seg, hasId, id) == [seg |-> seg, hasId |-> hasId, id |-> id]

Paths ==
    {Path("", FALSE, 0), Path("tarefas", FALSE, 0), Path("tasks", FALSE, 0)}
    \cup {Path("tarefas", TRUE, i) : i \in 1..MaxSeq}
    \cup {Path("tasks", TRUE, i) : i \in 1..MaxSeq}

\* ---------------------------------------------------------------- routing

\* Route with the rules registered under /tasks instead of /tarefas.
Route_tasks(method, path) ==
    IF path.seg = "tasks" /\ ~path.hasId THEN
        IF method = "POST" THEN "create_task"
        ELSE IF method = "GET" THEN "list_tasks"
        ELSE "405"
    ELSE IF path.seg = "tasks" /\ path.hasId THEN
        IF method = "GET" THEN "get_task"
        ELSE IF method = "PUT" THEN "update_task"
        ELSE IF method = "DELETE" THEN "delete_task"
        ELSE "405"
    ELSE "404"

\* The app's URL map: the @app.route decorators.  "404" and "405" are
\* werkzeug's answers for no rule and for a rule with another method.
Route(method, path) ==
    IF path.seg = "tarefas" /\ ~path.hasId THEN
        IF method = "POST" THEN "create_task"
        ELSE IF method = "GET" THEN "list_tasks"
        ELSE "405"
    ELSE IF path.seg = "tarefas" /\ path.hasId THEN
        IF method = "GET" THEN "get_task"
        ELSE IF method = "PUT" THEN "update_task"
        ELSE IF method = "DELETE" THEN "delete_task"
        ELSE "405"
    ELSE "404"

\* -------------------------------------------------------------- responses

Response(code, msg, tasks) == [code |-> code, msg |-> msg, tasks |-> tasks]

NoResp == Response(0, "", {})

\* jsonify of one task, under the wire's field names.
TaskJson(id, title, description, status, due_date) ==
    [id |-> id, titulo |-> title, descricao |-> description,
     status |-> status, data_vencimento |-> due_date]

\* A row of table tasks.
Row(id, title, description, status, due_date) ==
    [id |-> id, title |-> title, description |-> description,
     status |-> status, due_date |-> due_date]

MissingFields == Response(400, "Título e status são obrigatórios", {})

BadStatus == Response(400, "Status inválido", {})

BadDate == Response(400, "Data de vencimento inválida", {})

TaskNotFound == Response(404, "Tarefa não encontrada", {})

ServerError == Response(500, "Erro interno no servidor", {})

Deleted == Response(200, "Tarefa excluída com sucesso", {})

NoRule == Response(404, "Not Found", {})

NoMethod == Response(405, "Method Not Allowed", {})

\* The three checks that open create_task; NoResp when the body passes.
create_task_validate(data) ==
    IF ~Truthy(data.titulo) \/ ~Truthy(data.status) THEN MissingFields
    ELSE IF ~validate_status(data.status) THEN BadStatus
    ELSE IF Truthy(data.data_vencimento) /\ ~validate_date(data.data_vencimento)
         THEN BadDate
    ELSE NoResp

\* update_task's checks without the call of validate_status.
update_task_validate_nostatus(data) ==
    IF ~Truthy(data.titulo) \/ ~Truthy(data.status) THEN MissingFields
    ELSE IF Truthy(data.data_vencimento) /\ ~validate_date(data.data_vencimento)
         THEN BadDate
    ELSE NoResp

\* The three checks that open update_task; NoResp when the body passes.
update_task_validate(data) ==
    IF ~Truthy(data.titulo) \/ ~Truthy(data.status) THEN MissingFields
    ELSE IF ~validate_status(data.status) THEN BadStatus
    ELSE IF Truthy(data.data_vencimento) /\ ~validate_date(data.data_vencimento)
         THEN BadDate
    ELSE NoResp

\* ------------------------------------------------------------------ state

VARIABLES
    tableExists,  \* table tasks has been created
    table,        \* the committed rows of table tasks
    seq,          \* last value of the SERIAL sequence tasks_id_seq
    pc,           \* per worker: idle, connected, checked, written, done
    req,          \* per worker: the request being served
    tx,           \* per worker: the uncommitted write of its transaction
    resp,         \* per worker: the response returned
    fault,        \* per worker: what raised, if anything did
    conn,         \* per process: connections open, and opened by this call
    initpc,       \* init_db: idle or connected
    initRuns,     \* calls of init_db so far
    hist          \* one-at-a-time serving only: the table when the request
                  \* began, and the create or delete served before it

vars == <<tableExists, table, seq, pc, req, tx, resp, fault, conn, initpc,
          initRuns, hist>>

NoReq == [method |-> "", path |-> Path("", FALSE, 0), handler |-> "",
          data |-> NoData, args |-> NULL]

NoRow == Row(0, NULL, NULL, NULL, NULL)

\* kind: none (nothing written, or a write that matched no row), insert,
\* update, delete.
Tx(kind, row) == [kind |-> kind, row |-> row]

NoTx == Tx("none", NoRow)

NoConn == [open |-> 0, opened |-> 0]

NoPrev == [req |-> NoReq, resp |-> NoResp]

Init ==
    /\ tableExists = FALSE
    /\ table = {}
    /\ seq = 0
    /\ pc = [w \in Workers |-> "idle"]
    /\ req = [w \in Workers |-> NoReq]
    /\ tx = [w \in Workers |-> NoTx]
    /\ resp = [w \in Workers |-> NoResp]
    /\ fault = [w \in Workers |-> "none"]
    /\ conn = [p \in Procs |-> NoConn]
    /\ initpc = "idle"
    /\ initRuns = 0
    /\ hist = [before |-> {}, prev |-> NoPrev]


\* ------------------------------------------------------------- connection

\* get_db_connection returning a connection.
get_db_connection(c) == [open |-> c.open + 1, opened |-> c.opened + 1]

\* A finally block that closes nothing.
finally_close_leak(c) == c

\* finally: if conn: conn.close()
finally_close(c) == IF c.open > 0 THEN [c EXCEPT !.open = @ - 1] ELSE c

\* The handler returns r (f: what raised) and its finally block runs.  The
\* server rolls back what the closed connection had not committed.
Respond(w, r, f) ==
    /\ pc' = [pc EXCEPT ![w] = "done"]
    /\ resp' = [resp EXCEPT ![w] = r]
    /\ fault' = [fault EXCEPT ![w] = f]
    /\ tx' = [tx EXCEPT ![w] = NoTx]
    /\ conn' = [conn EXCEPT ![w] = finally_close(@)]

\* Worker w has answered a request that handler h served.
Done(w, h) == pc[w] = "done" /\ req[w].handler = h

\* The ids of a set of rows.
Ids(rows) == {r.id : r \in rows}

\* Another open transaction holds the row lock of id.
Locked(w, id) ==
    \E v \in Workers \ {w} :
        /\ pc[v] = "written"
        /\ tx[v].kind \in {"update", "delete"}
        /\ tx[v].row.id = id

\* conn.commit(): the transaction's write becomes the committed state.
ApplyTx(rows, t) ==
    IF t.kind = "insert" THEN rows \cup {t.row}
    ELSE IF t.kind = "update"
         THEN {r \in rows : r.id # t.row.id} \cup {t.row}
    ELSE IF t.kind = "delete" THEN {r \in rows : r.id # t.row.id}
    ELSE rows

\* The columns declared NOT NULL.
NotNullOk(row) == row.title.t # "null" /\ row.status.t # "null"

\* INSERTs that have a connection and have not run yet.
PendingInserts ==
    Cardinality({v \in Workers :
                    pc[v] = "connected" /\ req[v].handler = "create_task"})

\* ---------------------------------------------------------------- init_db

\* init_db up to get_db_connection(); when that raises, the except clause
\* prints and init_db returns.  Called before the server takes requests.
init_db_connect ==
    /\ initpc = "idle"
    /\ initRuns < MaxInitRuns
    /\ \A w \in Workers : pc[w] = "idle"
    /\ initRuns' = initRuns + 1
    /\ \/ /\ initpc' = "connected"
          /\ conn' = [conn EXCEPT !["init"] =
                         get_db_connection([@ EXCEPT !.opened = 0])]
       \/ /\ initpc' = "idle"
          /\ conn' = [conn EXCEPT !["init"] = [@ EXCEPT !.opened = 0]]
    /\ UNCHANGED <<tableExists, table, seq, pc, req, tx, resp, fault, hist>>

\* CREATE TABLE IF NOT EXISTS and the commit, or a failure of either, then
\* the finally block.
init_db_create ==
    /\ initpc = "connected"
    /\ initpc' = "idle"
    /\ conn' = [conn EXCEPT !["init"] = finally_close(@)]
    /\ \/ tableExists' = TRUE
       \/ tableExists' = tableExists
    /\ UNCHANGED <<table, seq, pc, req, tx, resp, fault, initRuns, hist>>

\* --------------------------------------------------------------- dispatch

\* A request arrives: the URL map picks the handler, create_task and
\* update_task validate the body, and the handler calls get_db_connection.
\* A create is admitted while the sequence can still advance below cap.
Request(w, method, path, data, args, cap) ==
    LET h == Route(method, path)
        bad == IF h = "create_task" THEN create_task_validate(data)
               ELSE IF h = "update_task" THEN update_task_validate(data)
               ELSE NoResp
    IN  /\ pc[w] = "idle"
        /\ initpc = "idle"
        /\ h = "create_task" => seq + PendingInserts < cap
        /\ req' = [req EXCEPT ![w] = [method |-> method, path |-> path,
                                      handler |-> h, data |-> data,
                                      args |-> args]]
        /\ \/ h = "404" /\ Respond(w, NoRule, "none")
           \/ h = "405" /\ Respond(w, NoMethod, "none")
           \/ h \notin {"404", "405"} /\ bad # NoResp /\ Respond(w, bad, "none")
           \/ /\ h \notin {"404", "405"} /\ bad = NoResp
              /\ Respond(w, ServerError, "connect")
           \/ /\ h \notin {"404", "405"} /\ bad = NoResp
              /\ pc' = [pc EXCEPT ![w] = "connected"]
              /\ conn' = [conn EXCEPT ![w] = get_db_connection(@)]
              /\ UNCHANGED <<tx, resp, fault>>
        /\ UNCHANGED <<tableExists, table, seq, initpc, initRuns>>

\* The response has been sent; the worker is free again.
Return(w) ==
    /\ pc[w] = "done"
    /\ pc' = [pc EXCEPT ![w] = "idle"]
    /\ req' = [req EXCEPT ![w] = NoReq]
    /\ resp' = [resp EXCEPT ![w] = NoResp]
    /\ fault' = [fault EXCEPT ![w] = "none"]
    /\ conn' = [conn EXCEPT ![w] = NoConn]
    /\ UNCHANGED <<tableExists, table, seq, tx, initpc, initRuns>>

\* ------------------------------------------------------------ create_task

\* create_task_insert taking MAX(id) + 1 for the new row's id instead of the
\* sequence's next value.
create_task_insert_maxid(w) ==
    LET d == req[w].data
        top == IF table = {} THEN 0
               ELSE CHOOSE i \in Ids(table) : \A j \in Ids(table) : j <= i
        row == Row(top + 1, d.titulo, d.descricao, d.status, d.data_vencimento)
    IN  /\ pc[w] = "connected"
        /\ req[w].handler = "create_task"
        /\ \/ /\ tableExists /\ NotNullOk(row)
              /\ seq' = seq + 1
              /\ tx' = [tx EXCEPT ![w] = Tx("insert", row)]
              /\ pc' = [pc EXCEPT ![w] = "written"]
              /\ UNCHANGED <<resp, fault, conn>>
           \/ /\ \E n \in {seq, seq + 1} : (n = seq \/ tableExists) /\ seq' = n
              /\ Respond(w, ServerError, "execute")
        /\ UNCHANGED <<tableExists, table, req, initpc, initRuns,
                     hist>>

\* INSERT ... RETURNING id.  The sequence is advanced whether or not the
\* statement then succeeds.
create_task_insert(w) ==
    LET d == req[w].data
        row == Row(seq + 1, d.titulo, d.descricao, d.status, d.data_vencimento)
    IN  /\ pc[w] = "connected"
        /\ req[w].handler = "create_task"
        /\ \/ /\ tableExists /\ NotNullOk(row)
              /\ seq' = seq + 1
              /\ tx' = [tx EXCEPT ![w] = Tx("insert", row)]
              /\ pc' = [pc EXCEPT ![w] = "written"]
              /\ UNCHANGED <<resp, fault, conn>>
           \/ /\ \E n \in {seq, seq + 1} : (n = seq \/ tableExists) /\ seq' = n
              /\ Respond(w, ServerError, "execute")
        /\ UNCHANGED <<tableExists, table, req, initpc, initRuns,
                     hist>>

\* create_task_commit where what raises comes after the commit took effect.
create_task_commit_late(w) ==
    LET d == req[w].data
        task_id == tx[w].row.id
    IN  /\ pc[w] = "written"
        /\ req[w].handler = "create_task"
        /\ \/ /\ table' = ApplyTx(table, tx[w])
              /\ Respond(w, Response(201, "",
                                {TaskJson(task_id, d.titulo, d.descricao,
                                          d.status, d.data_vencimento)}),
                         "none")
           \/ /\ table' = ApplyTx(table, tx[w])
              /\ Respond(w, ServerError, "commit")
        /\ UNCHANGED <<tableExists, seq, req, initpc, initRuns,
                     hist>>

\* conn.commit() and the 201 response built from the request's values and
\* the id the INSERT returned.
create_task_commit(w) ==
    LET d == req[w].data
        task_id == tx[w].row.id
    IN  /\ pc[w] = "written"
        /\ req[w].handler = "create_task"
        /\ \/ /\ table' = ApplyTx(table, tx[w])
              /\ Respond(w, Response(201, "",
                                {TaskJson(task_id, d.titulo, d.descricao,
                                          d.status, d.data_vencimento)}),
                         "none")
           \/ /\ table' = table
              /\ Respond(w, ServerError, "commit")
        /\ UNCHANGED <<tableExists, seq, req, initpc, initRuns,
                     hist>>

\* ------------------------------------------------------------- list_tasks

\* list_tasks_select filtering by any non-empty status, recognized or not.
list_tasks_select_anyfilter(w) ==
    LET status == req[w].args
        rows == IF Truthy(status)
                THEN {r \in table : r.status = status}
                ELSE table
    IN  /\ pc[w] = "connected"
        /\ req[w].handler = "list_tasks"
        /\ \/ /\ tableExists
              /\ Respond(w, Response(200, "",
                                {TaskJson(r.id, r.title, r.description,
                                          r.status, r.due_date) : r \in rows}),
                         "none")
           \/ Respond(w, ServerError, "execute")
        /\ UNCHANGED <<tableExists, table, seq, req, initpc, initRuns,
                     hist>>

\* SELECT ... FROM tasks [WHERE status = %s], and the rows as JSON.
list_tasks_select(w) ==
    LET status == req[w].args
        rows == IF Truthy(status) /\ validate_status(status)
                THEN {r \in table : r.status = status}
                ELSE table
    IN  /\ pc[w] = "connected"
        /\ req[w].handler = "list_tasks"
        /\ \/ /\ tableExists
              /\ Respond(w, Response(200, "",
                                {TaskJson(r.id, r.title, r.description,
                                          r.status, r.due_date) : r \in rows}),
                         "none")
           \/ Respond(w, ServerError, "execute")
        /\ UNCHANGED <<tableExists, table, seq, req, initpc, initRuns,
                     hist>>

\* --------------------------------------------------------------- get_task

\* get_task_select reading the description and the due date from each
\* other's column.
get_task_select_swapped(w) ==
    LET found == {r \in table : r.id = req[w].path.id}
    IN  /\ pc[w] = "connected"
        /\ req[w].handler = "get_task"
        /\ \/ /\ tableExists /\ found = {}
              /\ Respond(w, TaskNotFound, "none")
           \/ /\ tableExists /\ found # {}
              /\ Respond(w, Response(200, "",
                                {TaskJson(r.id, r.title, r.due_date,
                                          r.status, r.description) : r \in found}),
                         "none")
           \/ Respond(w, ServerError, "execute")
        /\ UNCHANGED <<tableExists, table, seq, req, initpc, initRuns,
                     hist>>

\* SELECT ... WHERE id = %s, then 404 or the row as JSON.
get_task_select(w) ==
    LET found == {r \in table : r.id = req[w].path.id}
    IN  /\ pc[w] = "connected"
        /\ req[w].handler = "get_task"
        /\ \/ /\ tableExists /\ found = {}
              /\ Respond(w, TaskNotFound, "none")
           \/ /\ tableExists /\ found # {}
              /\ Respond(w, Response(200, "",
                                {TaskJson(r.id, r.title, r.description,
                                          r.status, r.due_date) : r \in found}),
                         "none")
           \/ Respond(w, ServerError, "execute")
        /\ UNCHANGED <<tableExists, table, seq, req, initpc, initRuns,
                     hist>>

\* ------------------------------------------------------------ update_task

\* SELECT id FROM tasks WHERE id = %s, and the 404 when no row comes back.
update_task_select(w) ==
    LET found == {r \in table : r.id = req[w].path.id}
    IN  /\ pc[w] = "connected"
        /\ req[w].handler = "update_task"
        /\ \/ /\ tableExists /\ found = {}
              /\ Respond(w, TaskNotFound, "none")
           \/ /\ tableExists /\ found # {}
              /\ pc' = [pc EXCEPT ![w] = "checked"]
              /\ UNCHANGED <<tx, resp, fault, conn>>
           \/ Respond(w, ServerError, "execute")
        /\ UNCHANGED <<tableExists, table, seq, req, initpc, initRuns,
                     hist>>

\* UPDATE tasks SET ... WHERE id = %s: waits for the row lock, then writes
\* the row if it is still there and nothing otherwise.
update_task_write(w) ==
    LET d == req[w].data
        id == req[w].path.id
        row == Row(id, d.titulo, d.descricao, d.status, d.data_vencimento)
    IN  /\ pc[w] = "checked"
        /\ req[w].handler = "update_task"
        /\ \/ /\ ~Locked(w, id) /\ NotNullOk(row)
              /\ tx' = [tx EXCEPT ![w] =
                           IF \E r \in table : r.id = id
                           THEN Tx("update", row) ELSE NoTx]
              /\ pc' = [pc EXCEPT ![w] = "written"]
              /\ UNCHANGED <<resp, fault, conn>>
           \/ Respond(w, ServerError, "execute")
        /\ UNCHANGED <<tableExists, table, seq, req, initpc, initRuns,
                     hist>>

\* conn.commit() and the 200 response built from the request's values.
update_task_commit(w) ==
    LET d == req[w].data
        id == req[w].path.id
    IN  /\ pc[w] = "written"
        /\ req[w].handler = "update_task"
        /\ \/ /\ table' = ApplyTx(table, tx[w])
              /\ Respond(w, Response(200, "",
                                {TaskJson(id, d.titulo, d.descricao, d.status,
                                          d.data_vencimento)}),
                         "none")
           \/ /\ table' = table
              /\ Respond(w, ServerError, "commit")
        /\ UNCHANGED <<tableExists, seq, req, initpc, initRuns,
                     hist>>

\* ------------------------------------------------------------ delete_task

\* delete_task_select without the 404 return.
delete_task_select_nocheck(w) ==
    /\ pc[w] = "connected"
    /\ req[w].handler = "delete_task"
    /\ \/ /\ tableExists
          /\ pc' = [pc EXCEPT ![w] = "checked"]
          /\ UNCHANGED <<tx, resp, fault, conn>>
       \/ Respond(w, ServerError, "execute")
    /\ UNCHANGED <<tableExists, table, seq, req, initpc, initRuns,
                     hist>>

\* SELECT id FROM tasks WHERE id = %s, and the 404 when no row comes back.
delete_task_select(w) ==
    LET found == {r \in table : r.id = req[w].path.id}
    IN  /\ pc[w] = "connected"
        /\ req[w].handler = "delete_task"
        /\ \/ /\ tableExists /\ found = {}
              /\ Respond(w, TaskNotFound, "none")
           \/ /\ tableExists /\ found # {}
              /\ pc' = [pc EXCEPT ![w] = "checked"]
              /\ UNCHANGED <<tx, resp, fault, conn>>
           \/ Respond(w, ServerError, "execute")
        /\ UNCHANGED <<tableExists, table, seq, req, initpc, initRuns,
                     hist>>

\* DELETE FROM tasks WHERE id = %s: waits for the row lock, then deletes the
\* row if it is still there and nothing otherwise.
delete_task_write(w) ==
    LET id == req[w].path.id
    IN  /\ pc[w] = "checked"
        /\ req[w].handler = "delete_task"
        /\ \/ /\ ~Locked(w, id)
              /\ tx' = [tx EXCEPT ![w] =
                           IF \E r \in table : r.id = id
                           THEN Tx("delete", [NoRow EXCEPT !.id = id])
                           ELSE NoTx]
              /\ pc' = [pc EXCEPT ![w] = "written"]
              /\ UNCHANGED <<resp, fault, conn>>
           \/ Respond(w, ServerError, "execute")
        /\ UNCHANGED <<tableExists, table, seq, req, initpc, initRuns,
                     hist>>

\* conn.commit() and the 200 confirmation.
delete_task_commit(w) ==
    /\ pc[w] = "written"
    /\ req[w].handler = "delete_task"
    /\ \/ /\ table' = ApplyTx(table, tx[w])
          /\ Respond(w, Deleted, "none")
       \/ /\ table' = table
          /\ Respond(w, ServerError, "commit")
    /\ UNCHANGED <<tableExists, seq, req, initpc, initRuns,
                     hist>>

\* --------------------------------------------------------- specifications

\* Every step but the arrival and the departure of a request.
Serve ==
    \/ init_db_connect
    \/ init_db_create
    \/ \E w \in Workers : create_task_insert(w)
    \/ \E w \in Workers : create_task_commit(w)
    \/ \E w \in Workers : list_tasks_select(w)
    \/ \E w \in Workers : get_task_select(w)
    \/ \E w \in Workers : update_task_select(w)
    \/ \E w \in Workers : update_task_write(w)
    \/ \E w \in Workers : update_task_commit(w)
    \/ \E w \in Workers : delete_task_select(w)
    \/ \E w \in Workers : delete_task_write(w)
    \/ \E w \in Workers : delete_task_commit(w)

\* A request arrives whose path, body and query string are drawn from the
\* given sets; only POST and PUT carry a body, only GET /tarefas a filter.
Arrive(w, paths, bodies, filters, cap) ==
    \E method \in Methods : \E path \in paths :
        LET h == Route(method, path)
        IN  \E data \in IF h \in {"create_task", "update_task"}
                        THEN bodies ELSE {NoData} :
                \E args \in IF h = "list_tasks" THEN filters ELSE {NULL} :
                    Request(w, method, path, data, args, cap)

\* The inputs of concurrent serving: two bodies the handlers accept and one
\* for each check that rejects.
ConcBodies ==
    { BaseData,
      [BaseData EXCEPT !.descricao = Str(<<"d">>), !.status = CONCLUIDA,
                       !.data_vencimento = D_LEAP],
      [BaseData EXCEPT !.titulo = EMPTY],
      [BaseData EXCEPT !.status = Str(<<"P","e","n","d","e","n","t","e">>)],
      [BaseData EXCEPT !.data_vencimento = D_SLASH] }

ConcFilters == {NULL, PENDENTE}

ConcPaths ==
    {Path("", FALSE, 0), Path("tarefas", FALSE, 0)}
    \cup {Path("tarefas", TRUE, i) : i \in 1..ConcMaxSeq}

\* Requests served concurrently, each by a worker of its own.
Next ==
    \/ \E w \in Workers :
          /\ Arrive(w, ConcPaths, ConcBodies, ConcFilters, ConcMaxSeq)
          /\ UNCHANGED hist
    \/ \E w \in Workers : Return(w) /\ UNCHANGED hist
    \/ Serve

Spec == Init /\ [][Next]_vars

\* Requests served one at a time; hist remembers the table as the request
\* found it and, when the request served before it was a create answered
\* 201 or a delete answered 200, that request and its response.
SeqNext ==
    \/ \E w \in Workers :
          /\ \A v \in Workers : pc[v] = "idle"
          /\ Arrive(w, Paths, Bodies, Filters, MaxSeq)
          /\ hist' = [hist EXCEPT !.before = table]
    \/ \E w \in Workers :
          /\ Return(w)
          /\ hist' = [hist EXCEPT !.prev =
                          IF \/ Done(w, "create_task") /\ resp[w].code = 201
                             \/ Done(w, "delete_task") /\ resp[w].code = 200
                          THEN [req |-> req[w], resp |-> resp[w]]
                          ELSE NoPrev]
    \/ Serve

SeqSpec == Init /\ [][SeqNext]_vars

\* ----------------------------------------------------------------- claims

\* What the specification calls a valid YYYY-MM-DD date: four digits, two
\* digits, two digits, and a date of the calendar.
IsoDate(cs) ==
    /\ Len(cs) = 10
    /\ \A i \in {1, 2, 3, 4, 6, 7, 9, 10} : IsDigit(cs[i])
    /\ cs[5] = "-" /\ cs[8] = "-"
    /\ DateExists(IntOf(SubSeq(cs, 1, 4)), IntOf(SubSeq(cs, 6, 7)),
                  IntOf(SubSeq(cs, 9, 10)))

Recognized == {PENDENTE, REALIZANDO, CONCLUIDA}

\* A body the specification calls valid: non-empty title, recognized status,
\* due date absent or a valid YYYY-MM-DD date.
ValidInput(d) ==
    /\ Truthy(d.titulo)
    /\ d.status \in Recognized
    /\ d.data_vencimento = NULL \/ IsoDate(d.data_vencimento.s)

\* A body the specification calls invalid.
InvalidInput(d) ==
    \/ ~Truthy(d.titulo)
    \/ ~Truthy(d.status)
    \/ d.status \notin Recognized
    \/ Truthy(d.data_vencimento) /\ ~IsoDate(d.data_vencimento.s)

\* The record a request's values and an id make.
TaskOf(id, d) ==
    TaskJson(id, d.titulo, d.descricao, d.status, d.data_vencimento)

\* C1: served one at a time and with the storage answering, a create with a
\* valid body returns 201 with the request's values and an id no row had
\* before, and a get on that id issued next returns 200 with the same values
\* (absent optional fields null) and that id.
C1_CreateThenGet ==
    \A w \in Workers :
        /\ Done(w, "create_task") /\ ValidInput(req[w].data)
              /\ fault[w] = "none"
           => \E id \in 1..seq \ Ids(hist.before) :
                 resp[w] = Response(201, "", {TaskOf(id, req[w].data)})
        /\ Done(w, "get_task") /\ fault[w] = "none"
              /\ hist.prev.req.handler = "create_task"
              /\ hist.prev.resp.code = 201
              /\ ValidInput(hist.prev.req.data)
              /\ req[w].path.id \in {t.id : t \in hist.prev.resp.tasks}
           => resp[w] = Response(200, "",
                            {TaskOf(req[w].path.id, hist.prev.req.data)})

\* A get answered 200 right after the create, with an absent description and
\* an absent due date, that made its row.
C1_Witness ==
    \E w \in Workers :
        /\ Done(w, "get_task") /\ resp[w].code = 200
        /\ hist.prev.resp.code = 201
        /\ hist.prev.req.data = BaseData
        /\ req[w].path.id \in {t.id : t \in hist.prev.resp.tasks}

\* C2: a create or an update whose body is invalid (title or status missing
\* or empty, status not a recognized literal, non-empty due date not a valid
\* YYYY-MM-DD date) is answered 400 at once: no connection is opened and the
\* table is as the request found it.
C2_InvalidRejected ==
    \A w \in Workers :
        /\ pc[w] # "idle"
        /\ req[w].handler \in {"create_task", "update_task"}
        /\ InvalidInput(req[w].data)
        /\ fault[w] = "none"
        => /\ pc[w] = "done"
           /\ resp[w].code = 400
           /\ conn[w].opened = 0
           /\ table = hist.before

\* C3: under every interleaving, every committed row has a recognized status
\* and a non-empty title.
C3_RowsValid ==
    \A r \in table : r.status \in Recognized /\ Truthy(r.title)

\* A row written by an update is committed while another request is between
\* its statements.
C3_Witness ==
    \E w \in Workers : \E v \in Workers \ {w} :
        /\ Done(w, "update_task") /\ resp[w].code = 200
        /\ \E r \in table : r.id = req[w].path.id /\ r.status = CONCLUIDA
        /\ pc[v] \in {"checked", "written"}

\* C4: served one at a time and with the storage answering, a get, an update
\* with a valid body and a delete on an id that has no row are answered 404
\* and leave the table as it was.
C4_NotFound ==
    \A w \in Workers :
        /\ pc[w] = "done"
        /\ req[w].handler \in {"get_task", "update_task", "delete_task"}
        /\ req[w].handler = "update_task" => ValidInput(req[w].data)
        /\ req[w].path.id \notin Ids(hist.before)
        /\ fault[w] = "none"
        => resp[w] = TaskNotFound /\ resp[w].code = 404 /\ table = hist.before

\* An update and a delete answered 404 on an id whose row was deleted.
C4_Witness ==
    \E w \in Workers :
        /\ pc[w] = "done"
        /\ req[w].handler \in {"update_task", "delete_task"}
        /\ req[w].path.id \in 1..seq
        /\ req[w].path.id \notin Ids(hist.before)
        /\ tableExists /\ hist.before # {}
        /\ resp[w].code = 404

\* C5: with the storage answering, list with a recognized filter returns
\* exactly the rows of that status, list with no filter, an empty one or an
\* unrecognized one returns every row, both with 200, and the table is as it
\* was.
C5_ListFilter ==
    \A w \in Workers :
        Done(w, "list_tasks") /\ fault[w] = "none"
        => LET f == req[w].args
               want == IF f \in Recognized
                       THEN {r \in hist.before : r.status = f}
                       ELSE hist.before
           IN  /\ resp[w].code = 200
               /\ resp[w].tasks = {TaskJson(r.id, r.title, r.description,
                                            r.status, r.due_date) : r \in want}
               /\ table = hist.before

\* A list filtered by pendente over a table that holds a pendente row and a
\* row of another status.
C5_Witness ==
    \E w \in Workers :
        /\ Done(w, "list_tasks") /\ resp[w].code = 200
        /\ req[w].args = PENDENTE
        /\ \E r \in table : r.status = PENDENTE
        /\ \E r \in table : r.status # PENDENTE
        /\ Cardinality(resp[w].tasks) = 1

\* C6: a handler or init_db opens at most one connection per call and holds
\* none once it has returned, whatever the exit path; with nothing in
\* progress no connection is open.
C6_ConnectionsClosed ==
    /\ \A p \in Procs : conn[p].open <= 1 /\ conn[p].opened <= 1
    /\ \A w \in Workers : pc[w] \in {"idle", "done"} => conn[w].open = 0
    /\ initpc = "idle" => conn["init"].open = 0

\* A delete has left by its 404 return and an update because its commit
\* raised; each had opened a connection.
C6_Witness ==
    /\ \E w \in Workers :
          /\ Done(w, "delete_task") /\ resp[w].code = 404
          /\ conn[w].opened = 1
    /\ \E w \in Workers :
          /\ Done(w, "update_task") /\ fault[w] = "commit"
          /\ conn[w].opened = 1
    /\ conn["init"].opened = 1

\* C7: a request that passed validation and met a failure of the connection,
\* of a statement or of the commit is answered 500 with the one generic
\* body, and a request answered 500 leaves the table as it found it.
C7_FailureIs500 ==
    \A w \in Workers :
        pc[w] = "done"
        => /\ fault[w] # "none" => resp[w] = ServerError
           /\ resp[w].code = 500 => resp[w] = ServerError /\ table = hist.before

\* A create whose INSERT ran and whose commit raised, over a table that
\* already held a row.
C7_Witness ==
    \E w \in Workers :
        /\ Done(w, "create_task") /\ fault[w] = "commit"
        /\ resp[w].code = 500
        /\ table # {}
        /\ seq \notin Ids(table)

\* An id that was handed out and has neither a row nor an INSERT in flight.
Gone(id) ==
    /\ id \in 1..seq
    /\ id \notin Ids(table)
    /\ \A w \in Workers : ~(tx[w].kind = "insert" /\ tx[w].row.id = id)

\* C8: a delete answered 200 leaves no row of its id and removes no other
\* row; an id that has lost its row never gets one again, so no create
\* returns it; and a get, update or delete served after that finds nothing
\* and is answered 404 when the storage answers.
C8_DeletePermanent ==
    [][\A w \in Workers :
          /\ pc[w] = "written" /\ req[w].handler = "delete_task"
                /\ resp'[w].code = 200
             => /\ table' = {r \in table : r.id # req[w].path.id}
                /\ Gone(req[w].path.id)'
          /\ \A id \in 1..seq : Gone(id) => Gone(id)'
          /\ pc[w] = "written" /\ req[w].handler = "create_task"
                /\ resp'[w].code = 201
             => \A t \in resp'[w].tasks : ~Gone(t.id) /\ t.id \in Ids(table')
          /\ pc[w] = "connected" /\ pc'[w] # "connected"
                /\ req[w].handler \in {"get_task", "update_task", "delete_task"}
                /\ Gone(req[w].path.id) /\ fault'[w] = "none"
             => pc'[w] = "done" /\ resp'[w].code = 404
      ]_vars

\* A get answered 404 on the id of the delete that was answered 200 just
\* before it.
C8_Witness ==
    \E w \in Workers :
        /\ Done(w, "get_task") /\ resp[w].code = 404
        /\ hist.prev.req.handler = "delete_task"
        /\ hist.prev.resp.code = 200
        /\ hist.prev.req.path.id = req[w].path.id
        /\ Gone(req[w].path.id)

C10_UpdateWrites ==
    [][\A w \in Workers :
          pc[w] = "written" /\ req[w].handler = "update_task"
             /\ resp'[w].code = 200
          => LET d == req[w].data
                 id == req[w].path.id
             IN  /\ Row(id, d.titulo, d.descricao, d.status,
                        d.data_vencimento) \in table'
                 /\ resp'[w].tasks = {TaskOf(id, d)}
      ]_vars

=============================================================================
